---- MODULE Spec2Model ----
(***************************************************************************)
(* Model of src/main.rs: QuantileEstimator (a counting histogram over the  *)
(* closed range [start, end]) and TimeBasedRingBuffer (a ring of such      *)
(* histograms, one per time window).                                       *)
(*                                                                         *)
(* A run constructs one object, a QuantileEstimator or a                   *)
(* TimeBasedRingBuffer, and then calls its methods in any order with any   *)
(* arguments of the bounded input sets.  A panic unwinds the caller: the   *)
(* run ends in pc = "aborted".                                             *)
(*                                                                         *)
(* Numbers.  The u64 of timestamps and window starts is scaled down to    *)
(* WordBits bits: the additions on current_window_start wrap modulo Word,  *)
(* or panic in a build with overflow checks.  Counters stay far below the  *)
(* word size, and QuantileEstimator::new models the underflow of           *)
(* end - start + 1 for end < start by its outcomes.  A fraction is the     *)
(* rational n / FracDen, given by its numerator n; with the denominators   *)
(* used (4, 5) every product fraction * val_count is either an exact       *)
(* binary fraction or no closer than 1/10 to a rounding boundary, so the   *)
(* f64 arithmetic of the code rounds as the rational arithmetic does.      *)
(***************************************************************************)
EXTENDS Integers, Sequences, FiniteSets, TLC

\* ------------------------------------------------------------- bounds
\* values offered to add_value / insert are 0 .. MaxVal; ranges are drawn
\* from the same set, so a value can fall below start or above end
MaxVal == 1
\* at most MaxAdds values are added to an estimator
MaxAdds == 4
\* at most MaxInserts values are accepted by a ring buffer
MaxInserts == 2
\* timestamps offered to insert are 0 .. MaxTime
MaxTime == 3
\* capacities offered to TimeBasedRingBuffer::new are 0 .. MaxCap
MaxCap == 2
\* durations offered to TimeBasedRingBuffer::new are 0 .. MaxDur
MaxDur == 2
\* fractions offered to estimate_quantile are n / FracDen
FracDen == 4
\* the width of the unsigned word that stands for u64
WordBits == 4

Word == 2 ^ WordBits

Values == 0 .. MaxVal
Timestamps == 0 .. MaxTime
Capacities == 0 .. MaxCap
Durations == 0 .. MaxDur
\* numerators of the fractions: -1/FracDen and (FracDen+1)/FracDen are the
\* fractions below 0.0 and above 1.0
FracNums == -1 .. (FracDen + 1)

VARIABLES
    pc,      \* "start": nothing constructed; "est": a QuantileEstimator is
             \* live; "rb": a TimeBasedRingBuffer is live; "aborted": a panic
    est,     \* the QuantileEstimator
    rb,      \* the TimeBasedRingBuffer
    result,  \* the last call: its name, arguments and what it returned
    h        \* history of the ring buffer's inserts (not program state)

vars == <<pc, est, rb, result, h>>

\* ------------------------------------------------------------ outcomes
Ok(v) == [kind |-> "Ok", value |-> v, msg |-> ""]
Err(m) == [kind |-> "Err", value |-> 0, msg |-> m]
Panic(m) == [kind |-> "Panic", value |-> 0, msg |-> m]
Unit == [kind |-> "Unit", value |-> 0, msg |-> ""]

ErrFraction == "Fraction must be between 0 and 1"
ErrNoValues == "No values added to the estimator"
ErrNotFound == "No quantile found for the given fraction"
ErrNoWindows == "No windows available in the ring buffer"
ErrNoValuesAnyWindow == "No values added to any window"
PanicValueOutOfRange == "Value out of range"
PanicDuration == "Duration must be greater than zero"
PanicRemainderByZero == "attempt to calculate the remainder with a divisor of zero"
PanicNewRange == "attempt to subtract with overflow / capacity overflow"
PanicAddOverflow == "attempt to add with overflow"
PanicIndex == "index out of bounds"

Call(op, args, ret) == [op |-> op, args |-> args, ret |-> ret]

\* ------------------------------------------------- QuantileEstimator
\* the struct; quantiles[i + 1] is the Vec's element i
Estimator(val_count, start, end, quantiles) ==
    [val_count |-> val_count, start |-> start, end |-> end, quantiles |-> quantiles]

\* vec![0; n]
Zeros(n) == [i \in 1 .. n |-> 0]

\* QuantileEstimator::new.  The set of what a build can produce:
\*   end >= start: the estimator with end - start + 1 zero counters;
\*   end < start: end - start underflows.  With overflow checks (debug) the
\*   subtraction panics.  Without them (release) the length wraps to
\*   2^64 - (start - end - 1): 0 for end = start - 1, an estimator with no
\*   counter at all; for the other pairs within the bounds a length the
\*   allocator refuses (capacity overflow panic).
\* (A panicking outcome carries no object; its value field is a placeholder
\* of the object's shape, so that the outcomes of one call are comparable.)
NewOutcomes(start, end) ==
    IF end >= start
    THEN {Ok(Estimator(0, start, end, Zeros(end - start + 1)))}
    ELSE {[kind |-> "Panic", value |-> Estimator(0, start, end, Zeros(0)),
           msg |-> PanicNewRange]}
         \cup (IF start - end = 1
               THEN {Ok(Estimator(0, start, end, Zeros(0)))}
               ELSE {})

\* the range test of add_value
OutOfRange(e, value) == value < e.start \/ value > e.end

\* QuantileEstimator::add_value on an in-range value
AddValue(e, value) ==
    [e EXCEPT !.val_count = @ + 1,
              !.quantiles[value - e.start + 1] = @ + 1]

\* f64::round of the rational num / den (den > 0): half away from zero
Round(num, den) ==
    IF num >= 0
    THEN (2 * num + den) \div (2 * den)
    ELSE -((2 * (-num) + den) \div (2 * den))

\* `as usize` of a rounded f64: a negative number saturates to 0
AsUsize(x) == IF x < 0 THEN 0 ELSE x

\* TargetIndex with the `- 1.0` left out
TargetIndexNoMinusOne(n, val_count) == AsUsize(Round(n * val_count, FracDen))

\* (fraction * val_count as f64 - 1.0).round() as usize, fraction = n / FracDen
TargetIndex(n, val_count) == AsUsize(Round(n * val_count - FracDen, FracDen))

\* ClampIndex with the index wrapped around instead of clamped
ClampIndexWrapped(index, len) == index % len

\* if index >= len { index = len - 1 }
ClampIndex(index, len) == IF index >= len THEN len - 1 ELSE index

\* the cumulative sum of the first i counters
RECURSIVE Cumulative(_, _)
Cumulative(quantiles, i) ==
    IF i = 0 THEN 0 ELSE Cumulative(quantiles, i - 1) + quantiles[i]

\* Scan with the comparison `cumulative_count >= index`
ScanInclusive(quantiles, index, start) ==
    LET hits == {i \in 1 .. Len(quantiles) : Cumulative(quantiles, i) >= index}
    IN  IF hits = {}
        THEN Err(ErrNotFound)
        ELSE Ok(start + (CHOOSE i \in hits : \A j \in hits : i <= j) - 1)

\* Scan returning the 1-based position: start + i + 1
ScanOneBased(quantiles, index, start) ==
    LET hits == {i \in 1 .. Len(quantiles) : Cumulative(quantiles, i) > index}
    IN  IF hits = {}
        THEN Err(ErrNotFound)
        ELSE Ok(start + (CHOOSE i \in hits : \A j \in hits : i <= j))

\* the for loop: the first i whose cumulative count exceeds index
Scan(quantiles, index, start) ==
    LET hits == {i \in 1 .. Len(quantiles) : Cumulative(quantiles, i) > index}
    IN  IF hits = {}
        THEN Err(ErrNotFound)
        ELSE Ok(start + (CHOOSE i \in hits : \A j \in hits : i <= j) - 1)

\* estimate_quantile with the test `fraction > 1.0` left out
EstimateQuantileNoUpperTest(e, n) ==
    IF n < 0 THEN Err(ErrFraction)
    ELSE IF e.val_count = 0 THEN Err(ErrNoValues)
    ELSE Scan(e.quantiles,
              ClampIndex(TargetIndex(n, e.val_count), Len(e.quantiles)),
              e.start)

\* QuantileEstimator::estimate_quantile(n / FracDen)
EstimateQuantile(e, n) ==
    IF n < 0 \/ n > FracDen THEN Err(ErrFraction)
    ELSE IF e.val_count = 0 THEN Err(ErrNoValues)
    ELSE Scan(e.quantiles,
              ClampIndex(TargetIndex(n, e.val_count), Len(e.quantiles)),
              e.start)

NoEstimator == Estimator(0, 0, 0, <<>>)

\* ----------------------------------------------- TimeBasedRingBuffer
\* the struct; windows[i + 1] is the Vec's element i, current is 0-based
RingBuffer(capacity, duration, windows, start, end) ==
    [capacity |-> capacity, duration |-> duration, windows |-> windows,
     current |-> 0, start |-> start, end |-> end,
     current_window_start |-> 0, current_window_initialized |-> FALSE]

\* TimeBasedRingBuffer::new: capacity calls of QuantileEstimator::new, whose
\* panic is the constructor's; no parameter is validated
RbNewOutcomes(capacity, duration, start, end) ==
    IF capacity = 0
    THEN {Ok(RingBuffer(capacity, duration, <<>>, start, end))}
    ELSE {[kind |-> o.kind,
           value |-> RingBuffer(capacity, duration,
                                [i \in 1 .. capacity |-> o.value], start, end),
           msg |-> o.msg] : o \in NewOutcomes(start, end)}

\* InitWindow without the test of current_window_initialized
InitWindowAlways(b, timestamp) ==
    [b EXCEPT !.current_window_start = timestamp - (timestamp % b.duration),
              !.current_window_initialized = TRUE]

\* insert, first block: the first insert anchors the window grid
InitWindow(b, timestamp) ==
    IF b.current_window_initialized
    THEN b
    ELSE [b EXCEPT !.current_window_start = timestamp - (timestamp % b.duration),
                   !.current_window_initialized = TRUE]

\* MustAdvance with `+ self.duration` left out
MustAdvanceNoDuration(b, timestamp) == timestamp > b.current_window_start

\* u64 addition without overflow checks
WrappingAdd(a, c) == (a + c) % Word
\* the addition overflows: a panic in a build with overflow checks
AddOverflows(a, c) == a + c >= Word

\* the while condition of insert
MustAdvance(b, timestamp) ==
    timestamp > WrappingAdd(b.current_window_start, b.duration)

Max(a, c) == IF a >= c THEN a ELSE c
Min(a, c) == IF a <= c THEN a ELSE c

\* AdvanceOnce replacing every slot instead of the one current moves onto
AdvanceOnceAllSlots(b, timestamp) ==
    [b EXCEPT !.current = (b.current + 1) % b.capacity,
              !.windows = [i \in 1 .. Len(@) |->
                              Estimator(0, b.start, b.end,
                                        Zeros(Len(@[i].quantiles)))],
              !.current_window_start =
                  WrappingAdd(@, Max(timestamp, b.duration))]

\* one iteration of the while loop of insert (capacity > 0); the slot is
\* replaced by what QuantileEstimator::new built at construction: an empty
\* estimator of the same range
AdvanceOnce(b, timestamp) ==
    LET cur == (b.current + 1) % b.capacity
    IN  [b EXCEPT !.current = cur,
                  !.windows[cur + 1] =
                      Estimator(0, b.start, b.end, Zeros(Len(@.quantiles))),
                  !.current_window_start =
                      WrappingAdd(@, Max(timestamp, b.duration))]

\* the addition in the while condition overflows
HeadOverflows(b) == AddOverflows(b.current_window_start, b.duration)
\* the += of the loop body overflows
BodyOverflows(b, timestamp) ==
    AddOverflows(b.current_window_start, Max(timestamp, b.duration))
\* the loop body up to a panic of its +=: the slot is already replaced
AdvanceUntilAdd(b, timestamp) ==
    [AdvanceOnce(b, timestamp) EXCEPT
        !.current_window_start = b.current_window_start]

\* the while loop of insert, run to its end (capacity > 0, duration > 0)
RECURSIVE AdvanceWindows(_, _)
AdvanceWindows(b, timestamp) ==
    IF MustAdvance(b, timestamp)
    THEN AdvanceWindows(AdvanceOnce(b, timestamp), timestamp)
    ELSE b

\* the number of iterations the while loop runs
RECURSIVE AdvanceSteps(_, _)
AdvanceSteps(b, timestamp) ==
    IF MustAdvance(b, timestamp)
    THEN 1 + AdvanceSteps(AdvanceOnce(b, timestamp), timestamp)
    ELSE 0

\* the buffer at the first overflow of the while loop, where a build with
\* overflow checks panics (capacity > 0); empty when no addition overflows
RECURSIVE OverflowPanic(_, _)
OverflowPanic(b, timestamp) ==
    IF HeadOverflows(b) THEN {b}
    ELSE IF ~MustAdvance(b, timestamp) THEN {}
    ELSE IF BodyOverflows(b, timestamp) THEN {AdvanceUntilAdd(b, timestamp)}
    ELSE OverflowPanic(AdvanceOnce(b, timestamp), timestamp)

\* insert(value, timestamp): the buffer it leaves and what the call returns
\* when no addition overflows or the build wraps.  A panic leaves the
\* mutations made before it.
InsertOutcome(b, value, timestamp) ==
    IF ~b.current_window_initialized /\ b.duration = 0
    THEN [buf |-> b, ret |-> Panic(PanicDuration)]
    ELSE LET b1 == InitWindow(b, timestamp)
         IN  IF b.capacity = 0
             THEN [buf |-> b1,
                   ret |-> Panic(IF MustAdvance(b1, timestamp)
                                 THEN PanicRemainderByZero
                                 ELSE PanicIndex)]
             ELSE LET b2 == AdvanceWindows(b1, timestamp)
                      w == b2.windows[b2.current + 1]
                  IN  IF OutOfRange(w, value)
                      THEN [buf |-> b2, ret |-> Panic(PanicValueOutOfRange)]
                      ELSE [buf |-> [b2 EXCEPT !.windows[b2.current + 1] =
                                                   AddValue(w, value)],
                            ret |-> Unit]

\* the buffers insert leaves where an overflow check panics
InsertOverflows(b, timestamp) ==
    IF ~b.current_window_initialized /\ b.duration = 0
    THEN {}
    ELSE LET b1 == InitWindow(b, timestamp)
         IN  IF b.capacity = 0
             THEN (IF HeadOverflows(b1) THEN {b1} ELSE {})
             ELSE OverflowPanic(b1, timestamp)

\* insert(value, timestamp) in either build; unchecked: the run has shown
\* that the build has no overflow checks
InsertOutcomes(b, value, timestamp, unchecked) ==
    {InsertOutcome(b, value, timestamp)}
    \cup (IF unchecked
          THEN {}
          ELSE {[buf |-> x, ret |-> Panic(PanicAddOverflow)] :
                   x \in InsertOverflows(b, timestamp)})

\* sum of val_count over all windows
RECURSIVE SumValCount(_, _)
SumValCount(windows, k) ==
    IF k = 0 THEN 0 ELSE SumValCount(windows, k - 1) + windows[k].val_count

TotalValCount(b) == SumValCount(b.windows, Len(b.windows))

\* counter i summed over the first k windows
RECURSIVE SumQuantile(_, _, _)
SumQuantile(windows, k, i) ==
    IF k = 0 THEN 0 ELSE SumQuantile(windows, k - 1, i) + windows[k].quantiles[i]

\* the length of combined_quantiles: (end - start + 1) as usize, which wraps
\* to 0 for end = start - 1 as in QuantileEstimator::new
CombinedLen(b) == IF b.end >= b.start THEN b.end - b.start + 1 ELSE 0

\* CombinedQuantiles with the outer loop starting at the second window
CombinedQuantilesSkipFirst(b) ==
    [i \in 1 .. CombinedLen(b) |->
        SumQuantile(b.windows, Len(b.windows), i)
        - (IF Len(b.windows) > 0 THEN b.windows[1].quantiles[i] ELSE 0)]

\* combined_quantiles after the two nested for loops
CombinedQuantiles(b) ==
    [i \in 1 .. CombinedLen(b) |-> SumQuantile(b.windows, Len(b.windows), i)]

\* TimeBasedRingBuffer::estimate_quantile(n / FracDen)
RbEstimateQuantile(b, n) ==
    IF n < 0 \/ n > FracDen THEN Err(ErrFraction)
    ELSE IF Len(b.windows) = 0 THEN Err(ErrNoWindows)
    ELSE IF TotalValCount(b) = 0 THEN Err(ErrNoValuesAnyWindow)
    ELSE Scan(CombinedQuantiles(b),
              ClampIndex(TargetIndex(n, TotalValCount(b)), CombinedLen(b)),
              b.start)

NoRingBuffer == RingBuffer(0, 0, <<>>, 0, 0)

\* ------------------------------------------------------------ history
\* What the inserts of a run were, kept beside the program state:
\*   ref         an estimator of the buffer's range that received every value
\*               the buffer accepted
\*   firstStart  the start of the first window (-1 before the first insert)
\*   allWithin   every insert's timestamp was within capacity * duration of
\*               firstStart
\*   oldest      per slot, the smallest timestamp of the values counted in it
\*               (-1: none)
\*   lastTs      the timestamp of the last insert (-1: none)
\*   monotone    the timestamps so far never decreased
\*   unchecked   an overflow has wrapped: the build has no overflow checks
NoHistory ==
    [ref |-> NoEstimator, firstStart |-> -1, allWithin |-> TRUE,
     oldest |-> <<>>, lastTs |-> -1, monotone |-> TRUE, unchecked |-> FALSE]

NewHistory(b) ==
    [NoHistory EXCEPT !.ref = Estimator(0, b.start, b.end, Zeros(CombinedLen(b))),
                      !.oldest = [i \in 1 .. b.capacity |-> -1],
                      !.unchecked = b.end < b.start]

Abs(x) == IF x < 0 THEN -x ELSE x

\* the slots the while loop of insert(_, timestamp) resets, 0-based
ResetSlots(b, timestamp) ==
    IF b.capacity = 0 \/ b.duration = 0
    THEN {}
    ELSE LET b1 == InitWindow(b, timestamp)
         IN  {(b1.current + j) % b1.capacity :
                  j \in 1 .. AdvanceSteps(b1, timestamp)}

HistoryAfter(b, value, timestamp, out) ==
    LET first == IF h.firstStart = -1 /\ b.duration > 0
                 THEN timestamp - (timestamp % b.duration)
                 ELSE h.firstStart
        reset == ResetSlots(b, timestamp)
        cleared == [i \in 1 .. Len(h.oldest) |->
                       IF (i - 1) \in reset THEN -1 ELSE h.oldest[i]]
        cur == out.buf.current + 1
    IN  [ref |-> IF out.ret.kind = "Unit" THEN AddValue(h.ref, value) ELSE h.ref,
         firstStart |-> first,
         allWithin |-> h.allWithin
                       /\ Abs(timestamp - first) < b.capacity * b.duration,
         oldest |-> IF out.ret.kind = "Unit"
                    THEN [cleared EXCEPT ![cur] =
                             IF @ = -1 THEN timestamp ELSE Min(@, timestamp)]
                    ELSE cleared,
         lastTs |-> timestamp,
         monotone |-> h.monotone /\ timestamp >= h.lastTs,
         unchecked |-> h.unchecked
                       \/ (InsertOverflows(b, timestamp) # {}
                           /\ out.ret.msg # PanicAddOverflow)]

\* ------------------------------------------------------------ actions
Init ==
    /\ pc = "start"
    /\ est = NoEstimator
    /\ rb = NoRingBuffer
    /\ result = Call("none", <<>>, Unit)
    /\ h = NoHistory

\* let e = QuantileEstimator::new(start, end)
EstNew ==
    /\ pc = "start"
    /\ \E start \in Values, end \in Values :
         \E o \in NewOutcomes(start, end) :
            /\ result' = Call("new", <<start, end>>,
                              IF o.kind = "Ok" THEN Unit ELSE Panic(o.msg))
            /\ IF o.kind = "Ok"
               THEN pc' = "est" /\ est' = o.value
               ELSE pc' = "aborted" /\ est' = est
    /\ UNCHANGED <<rb, h>>

\* e.add_value(value)
EstAddValue ==
    /\ pc = "est"
    /\ est.val_count < MaxAdds
    /\ \E value \in Values :
         IF OutOfRange(est, value)
         THEN /\ result' = Call("add_value", <<value>>, Panic(PanicValueOutOfRange))
              /\ pc' = "aborted"
              /\ est' = est
         ELSE /\ result' = Call("add_value", <<value>>, Unit)
              /\ pc' = pc
              /\ est' = AddValue(est, value)
    /\ UNCHANGED <<rb, h>>

\* e.estimate_quantile(n / FracDen)
EstEstimateQuantile ==
    /\ pc = "est"
    /\ \E n \in FracNums :
         result' = Call("estimate_quantile", <<n>>, EstimateQuantile(est, n))
    /\ UNCHANGED <<pc, est, rb, h>>

\* let b = TimeBasedRingBuffer::new(capacity, duration, start, end)
RbNew ==
    /\ pc = "start"
    /\ \E capacity \in Capacities, duration \in Durations,
          start \in Values, end \in Values :
         \E o \in RbNewOutcomes(capacity, duration, start, end) :
            /\ result' = Call("rb_new", <<capacity, duration, start, end>>,
                              IF o.kind = "Ok" THEN Unit ELSE Panic(o.msg))
            /\ IF o.kind = "Ok"
               THEN pc' = "rb" /\ rb' = o.value /\ h' = NewHistory(o.value)
               ELSE pc' = "aborted" /\ rb' = rb /\ h' = h
    /\ est' = est

\* b.insert(value, timestamp)
RbInsert ==
    /\ pc = "rb"
    /\ h.ref.val_count < MaxInserts
    /\ \E value \in Values, timestamp \in Timestamps :
         \E out \in InsertOutcomes(rb, value, timestamp, h.unchecked) :
            /\ result' = Call("insert", <<value, timestamp>>, out.ret)
            /\ rb' = out.buf
            /\ pc' = IF out.ret.kind = "Panic" THEN "aborted" ELSE pc
            /\ h' = HistoryAfter(rb, value, timestamp, out)
    /\ est' = est

\* b.estimate_quantile(n / FracDen)
RbEstimateQuantileCall ==
    /\ pc = "rb"
    /\ \E n \in FracNums :
         result' = Call("rb_estimate_quantile", <<n>>, RbEstimateQuantile(rb, n))
    /\ UNCHANGED <<pc, est, rb, h>>

Next ==
    \/ EstNew
    \/ EstAddValue
    \/ EstEstimateQuantile
    \/ RbNew
    \/ RbInsert
    \/ RbEstimateQuantileCall

Spec == Init /\ [][Next]_vars

\* ------------------------------------------ insert, one iteration a step
\* The same run with insert taken apart: the first block, then one step per
\* iteration of the while loop, then add_value.  While the call runs, pc is
\* "insert_loop" and result holds the call with Pending for its return.  Of
\* the history, these steps keep ref and unchecked.
Pending == [kind |-> "Pending", value |-> 0, msg |-> ""]

\* timestamps of the step specification: the small ones and the largest
LoopTimestamps == Timestamps \cup {Word - 1 - k : k \in 0 .. MaxDur}

\* insert, first block
InsertBegin ==
    /\ pc = "rb"
    /\ h.ref.val_count < MaxInserts
    /\ \E value \in Values, timestamp \in LoopTimestamps :
         IF ~rb.current_window_initialized /\ rb.duration = 0
         THEN /\ result' = Call("insert", <<value, timestamp>>,
                                Panic(PanicDuration))
              /\ pc' = "aborted"
              /\ rb' = rb
         ELSE /\ result' = Call("insert", <<value, timestamp>>, Pending)
              /\ pc' = "insert_loop"
              /\ rb' = InitWindow(rb, timestamp)
    /\ UNCHANGED <<est, h>>

\* the while condition panics: its addition overflows in a build with
\* overflow checks
InsertHeadPanic ==
    /\ pc = "insert_loop"
    /\ HeadOverflows(rb)
    /\ ~h.unchecked
    /\ result' = [result EXCEPT !.ret = Panic(PanicAddOverflow)]
    /\ pc' = "aborted"
    /\ UNCHANGED <<est, rb, h>>

\* the while condition holds and the body runs once
InsertLoopStep ==
    /\ pc = "insert_loop"
    /\ MustAdvance(rb, result.args[2])
    /\ LET timestamp == result.args[2]
           wrapped == h.unchecked \/ HeadOverflows(rb)
       IN  IF rb.capacity = 0
           THEN /\ result' = [result EXCEPT !.ret = Panic(PanicRemainderByZero)]
                /\ pc' = "aborted"
                /\ rb' = rb
                /\ h' = [h EXCEPT !.unchecked = wrapped]
           ELSE \/ /\ rb' = AdvanceOnce(rb, timestamp)
                   /\ h' = [h EXCEPT !.unchecked =
                                wrapped \/ BodyOverflows(rb, timestamp)]
                   /\ UNCHANGED <<pc, result>>
                \/ /\ BodyOverflows(rb, timestamp)
                   /\ ~wrapped
                   /\ rb' = AdvanceUntilAdd(rb, timestamp)
                   /\ result' = [result EXCEPT !.ret = Panic(PanicAddOverflow)]
                   /\ pc' = "aborted"
                   /\ h' = h
    /\ est' = est

\* the while condition fails: self.windows[self.current].add_value(value)
InsertLoopExit ==
    /\ pc = "insert_loop"
    /\ LET value == result.args[1]
           timestamp == result.args[2]
           wrapped == h.unchecked \/ HeadOverflows(rb)
       IN  /\ ~MustAdvance(rb, timestamp)
           /\ IF rb.capacity = 0
              THEN /\ result' = [result EXCEPT !.ret = Panic(PanicIndex)]
                   /\ pc' = "aborted"
                   /\ rb' = rb
                   /\ h' = [h EXCEPT !.unchecked = wrapped]
              ELSE LET w == rb.windows[rb.current + 1]
                   IN  IF OutOfRange(w, value)
                       THEN /\ result' = [result EXCEPT
                                             !.ret = Panic(PanicValueOutOfRange)]
                            /\ pc' = "aborted"
                            /\ rb' = rb
                            /\ h' = [h EXCEPT !.unchecked = wrapped]
                       ELSE /\ result' = [result EXCEPT !.ret = Unit]
                            /\ pc' = "rb"
                            /\ rb' = [rb EXCEPT !.windows[rb.current + 1] =
                                                    AddValue(w, value)]
                            /\ h' = [h EXCEPT !.ref = AddValue(@, value),
                                              !.unchecked = wrapped]
    /\ est' = est

\* a call of insert that has begun goes on
InsertRuns == InsertHeadPanic \/ InsertLoopStep \/ InsertLoopExit

NextLoop ==
    \/ RbNew
    \/ InsertBegin
    \/ InsertHeadPanic
    \/ InsertLoopStep
    \/ InsertLoopExit

SpecLoop == Init /\ [][NextLoop]_vars /\ WF_vars(InsertRuns)

\* ======================================================= properties
LastArg(k) == result.args[k]
ValidFraction(n) == n >= 0 /\ n <= FracDen

\* the observations of an estimator in increasing order, from its counters
RECURSIVE SortedObservations(_, _)
SortedObservations(e, i) ==
    IF i = 0
    THEN <<>>
    ELSE SortedObservations(e, i - 1) \o [k \in 1 .. e.quantiles[i] |-> e.start + i - 1]

Observed(e) == {e.start + i - 1 : i \in {j \in 1 .. Len(e.quantiles) : e.quantiles[j] > 0}}
MinObserved(e) == CHOOSE v \in Observed(e) : \A w \in Observed(e) : v <= w
MaxObserved(e) == CHOOSE v \in Observed(e) : \A w \in Observed(e) : v >= w

\* round(fraction * total - 1) clamped into [0, total - 1]
NearestRank(n, total) == Min(Max(Round(n * total - FracDen, FracDen), 0), total - 1)

EstQueried == result.op = "estimate_quantile" /\ pc = "est"
RbQueried == result.op = "rb_estimate_quantile" /\ pc = "rb"
Inserted == result.op = "insert"

\* ---- C3.  For every non-empty histogram and every fraction in [0,1],
\* estimate_quantile returns the observation at zero-based position rank of
\* the sorted observations, rank = round(fraction * total - 1) clamped into
\* [0, total - 1].  (The claim as stated; the code clamps to the number of
\* counters instead.)
C3_NearestRank ==
    (EstQueried /\ ValidFraction(LastArg(1)) /\ est.val_count > 0)
    => result.ret =
         Ok(SortedObservations(est, Len(est.quantiles))
                [NearestRank(LastArg(1), est.val_count) + 1])

\* ---- C4.  For every non-empty histogram estimate_quantile(1.0) returns the
\* largest value added.  (The claim as stated.)
C4_FractionOneIsMax ==
    (EstQueried /\ LastArg(1) = FracDen /\ est.val_count > 0)
    => result.ret = Ok(MaxObserved(est))

\* ---- C5.  For every non-empty histogram estimate_quantile(0.0) returns the
\* smallest value added.
C5_FractionZeroIsMin ==
    (EstQueried /\ LastArg(1) = 0 /\ est.val_count > 0)
    => result.ret = Ok(MinObserved(est))

\* estimate_quantile(0.0) has answered on a histogram whose smallest value is
\* not the start of its range and which holds two different values
C5_Witness ==
    /\ EstQueried /\ LastArg(1) = 0
    /\ result.ret.kind = "Ok"
    /\ result.ret.value > est.start
    /\ est.val_count > 1

\* ---- C6.  Monotonicity: on a fixed non-empty histogram, a fraction no
\* smaller than the one just queried yields a value no smaller, and a
\* fraction no larger yields a value no larger.
C6_Monotone ==
    (EstQueried /\ ValidFraction(LastArg(1)) /\ est.val_count > 0)
    => \A n \in 0 .. FracDen :
          LET other == EstimateQuantile(est, n)
          IN  /\ result.ret.kind = "Ok"
              /\ other.kind = "Ok"
              /\ (n >= LastArg(1) => other.value >= result.ret.value)
              /\ (n <= LastArg(1) => other.value <= result.ret.value)

\* a query answered with a value that a larger fraction strictly exceeds
C6_Witness ==
    /\ EstQueried /\ ValidFraction(LastArg(1))
    /\ result.ret.kind = "Ok"
    /\ \E n \in 0 .. FracDen :
          n > LastArg(1) /\ EstimateQuantile(est, n).value > result.ret.value

\* ---- C7.  add_value(v) with v < start or v > end returns the recoverable
\* error ValueOutOfRange, the process goes on, and val_count and every
\* counter are unchanged.  (The claim as stated; the code panics.)
C7_AddValueOutOfRange ==
    [][\A value \in Values :
          (/\ pc = "est"
           /\ OutOfRange(est, value)
           /\ result'.op = "add_value"
           /\ result'.args = <<value>>)
          => (/\ result'.ret.kind = "Err"
              /\ pc' = "est"
              /\ est' = est)]_vars

\* ---- C10.  estimate_quantile of the estimator and of the ring buffer
\* returns an error, never a value, for a fraction below 0 or above 1
\* (whatever the contents) and for a valid fraction when no observation is
\* held (for the buffer: summed over all its windows).
C10_QueryErrors ==
    /\ EstQueried =>
         /\ ~ValidFraction(LastArg(1)) => result.ret = Err(ErrFraction)
         /\ (ValidFraction(LastArg(1)) /\ est.val_count = 0)
              => result.ret = Err(ErrNoValues)
    /\ RbQueried =>
         /\ ~ValidFraction(LastArg(1)) => result.ret = Err(ErrFraction)
         /\ (ValidFraction(LastArg(1)) /\ TotalValCount(rb) = 0)
              => result.ret = Err(IF rb.capacity = 0
                                  THEN ErrNoWindows
                                  ELSE ErrNoValuesAnyWindow)

\* a fraction above 1 was refused by a buffer that holds observations
C10_Witness ==
    /\ RbQueried
    /\ LastArg(1) > FracDen
    /\ TotalValCount(rb) > 0
    /\ result.ret.kind = "Err"

\* ---- C1.  Eviction: in a run of inserts with non-decreasing timestamps,
\* after an insert at timestamp t no retained window still counts a value
\* that was inserted with a timestamp below
\* floor(t / duration) * duration - (capacity - 1) * duration.
\* (The claim as stated; the code's loop advances once where the claim
\* needs one step per elapsed window.)
EvictionHorizon(b, t) == (t \div b.duration) * b.duration - (b.capacity - 1) * b.duration

C1_Eviction ==
    (Inserted /\ result.ret.kind = "Unit" /\ h.monotone)
    => \A i \in 1 .. Len(rb.windows) :
          rb.windows[i].val_count > 0
          => h.oldest[i] >= EvictionHorizon(rb, LastArg(2))

\* ---- C2.  Merge correctness: when every insert's timestamp lay within
\* capacity * duration of the first window's start, the buffer's
\* estimate_quantile(f) returns what estimate_quantile(f) returns on one
\* estimator of the same range that received the same values: the same
\* value, or an error of the same kind.
SameOutcome(r1, r2) ==
    /\ r1.kind = r2.kind
    /\ r1.value = r2.value
    /\ (r1.msg = ErrFraction) <=> (r2.msg = ErrFraction)
    /\ (r1.msg = ErrNotFound) <=> (r2.msg = ErrNotFound)

C2_MergeMatchesSingle ==
    (RbQueried /\ h.allWithin)
    => SameOutcome(result.ret, EstimateQuantile(h.ref, LastArg(1)))

\* a value was returned from a buffer whose observations are spread over
\* two windows, none of them evicted
C2_Witness ==
    /\ RbQueried /\ h.allWithin
    /\ result.ret.kind = "Ok"
    /\ \E i, j \in 1 .. Len(rb.windows) :
          i # j /\ rb.windows[i].val_count > 0 /\ rb.windows[j].val_count > 0

\* ---- C8.  insert(value, timestamp) with value outside [start, end] returns
\* ValueOutOfRange and the process goes on; the windows are advanced for the
\* timestamp as for an in-range value, and no counter or val_count of any
\* window is incremented.  (The claim as stated; add_value panics.)
C8_InsertOutOfRange ==
    [][\A value \in Values, timestamp \in Timestamps :
          (/\ pc = "rb"
           /\ rb.capacity > 0 /\ rb.duration > 0 /\ rb.end >= rb.start
           /\ (value < rb.start \/ value > rb.end)
           /\ result'.op = "insert"
           /\ result'.args = <<value, timestamp>>)
          => (/\ result'.ret.kind = "Err"
              /\ pc' = "rb"
              /\ rb' = AdvanceWindows(InitWindow(rb, timestamp), timestamp)
              /\ \A i \in 1 .. Len(rb.windows) :
                    /\ rb'.windows[i].val_count <= rb.windows[i].val_count
                    /\ \A k \in 1 .. Len(rb.windows[i].quantiles) :
                          rb'.windows[i].quantiles[k] <= rb.windows[i].quantiles[k])]_vars

\* ---- C9.  Construction validates its parameters: QuantileEstimator::new
\* returns an error for end < start, TimeBasedRingBuffer::new returns an
\* error for capacity = 0, for duration = 0 and for end < start, so that no
\* buffer of capacity 0 or duration 0 is ever live.  (The claim as stated;
\* the constructors validate nothing.)
C9_ConstructionValidates ==
    /\ (result.op = "new" /\ LastArg(2) < LastArg(1))
         => result.ret.kind = "Err"
    /\ (result.op = "rb_new"
        /\ (LastArg(1) = 0 \/ LastArg(2) = 0 \/ LastArg(4) < LastArg(3)))
         => result.ret.kind = "Err"
    /\ pc = "rb" => (rb.capacity > 0 /\ rb.duration > 0)

\* a live buffer as the constructor is meant to build it
ValidBuffer(b) == b.capacity > 0 /\ b.duration > 0 /\ b.end >= b.start
InRange(b, value) == value >= b.start /\ value <= b.end

\* the step is the call insert(value, timestamp) on the live buffer
InsertCall(value, timestamp) ==
    /\ pc = "rb"
    /\ result'.op = "insert"
    /\ result'.args = <<value, timestamp>>

\* a window holding the one observation `value` and nothing else
OnlyValue(w, b, value) ==
    /\ w.val_count = 1
    /\ \A k \in 1 .. Len(w.quantiles) :
          w.quantiles[k] = (IF k = value - b.start + 1 THEN 1 ELSE 0)

\* ---- C11.  Half-open windows: an insert whose timestamp equals
\* current_window_start + duration advances to the next window; the value is
\* recorded in the freshly reset slot (current + 1) mod capacity and a
\* different, previously active slot is left as it was.  (The claim as
\* stated; the loop tests `>`.)
C11_HalfOpenBoundary ==
    [][\A value \in Values, timestamp \in Timestamps :
          (/\ InsertCall(value, timestamp)
           /\ ValidBuffer(rb) /\ InRange(rb, value)
           /\ rb.current_window_initialized
           /\ timestamp = rb.current_window_start + rb.duration)
          => LET next == (rb.current + 1) % rb.capacity
             IN  /\ rb'.current = next
                 /\ OnlyValue(rb'.windows[next + 1], rb, value)
                 /\ next # rb.current
                      => rb'.windows[rb.current + 1] = rb.windows[rb.current + 1]]_vars

\* ---- C12.  One window per advance step: an insert with timestamp t >=
\* current_window_start + duration performs k = floor((t -
\* current_window_start) / duration) steps, so that afterwards current is
\* (current + k) mod capacity and current_window_start has grown by
\* k * duration.  (The claim as stated; the code adds max(timestamp,
\* duration) per step.)
C12_OneWindowPerStep ==
    [][\A value \in Values, timestamp \in Timestamps :
          (/\ InsertCall(value, timestamp)
           /\ ValidBuffer(rb) /\ InRange(rb, value)
           /\ rb.current_window_initialized
           /\ timestamp >= rb.current_window_start + rb.duration)
          => LET k == (timestamp - rb.current_window_start) \div rb.duration
             IN  /\ rb'.current = (rb.current + k) % rb.capacity
                 /\ rb'.current_window_start =
                        rb.current_window_start + k * rb.duration]_vars

\* ---- C13.  QuantileNotFound is unreachable: whenever the fraction is in
\* [0,1] and observations are held, estimate_quantile of the estimator and
\* of the ring buffer ends its scan with a value, never with "No quantile
\* found for the given fraction".
C13_QuantileFound ==
    /\ (EstQueried /\ ValidFraction(LastArg(1)) /\ est.val_count > 0)
         => result.ret.kind = "Ok"
    /\ (RbQueried /\ ValidFraction(LastArg(1)) /\ TotalValCount(rb) > 0)
         => result.ret.kind = "Ok"
    /\ (EstQueried \/ RbQueried) => result.ret.msg # ErrNotFound

\* fraction 1.0 was answered on an estimator with fewer observations than
\* counters, where the target index is the last observation's
C13_Witness ==
    /\ EstQueried /\ LastArg(1) = FracDen
    /\ est.val_count > 0 /\ est.val_count < Len(est.quantiles)
    /\ result.ret.kind = "Ok"

\* ---- C14.  Every value estimate_quantile returns, from the estimator or
\* from the ring buffer, lies in [start, end] and is present: its counter
\* (for the buffer: its counter summed over the windows) is above zero.
C14_ReturnedValuePresent ==
    /\ (EstQueried /\ result.ret.kind = "Ok")
         => /\ result.ret.value >= est.start /\ result.ret.value <= est.end
            /\ est.quantiles[result.ret.value - est.start + 1] > 0
    /\ (RbQueried /\ result.ret.kind = "Ok")
         => /\ result.ret.value >= rb.start /\ result.ret.value <= rb.end
            /\ \E i \in 1 .. Len(rb.windows) :
                  rb.windows[i].quantiles[result.ret.value - rb.start + 1] > 0

\* the buffer returned a value above the start of its range that only a
\* window other than the active one holds
C14_Witness ==
    /\ RbQueried /\ result.ret.kind = "Ok"
    /\ result.ret.value > rb.start
    /\ rb.windows[rb.current + 1].quantiles[result.ret.value - rb.start + 1] = 0

\* ---- C15.  In a run of inserts with non-decreasing timestamps, after every
\* insert the active window contains the timestamp,
\* current_window_start <= timestamp < current_window_start + duration, and
\* current_window_start lies a multiple of duration after the first
\* window's start.  (The claim as stated.)
C15_ActiveWindowContainsTimestamp ==
    (Inserted /\ pc = "rb" /\ ValidBuffer(rb) /\ h.monotone)
    => /\ rb.current_window_start <= LastArg(2)
       /\ LastArg(2) < rb.current_window_start + rb.duration
       /\ (rb.current_window_start - h.firstStart) % rb.duration = 0

\* ---- C17.  An insert of an in-range value on an initialized buffer with
\* timestamp < current_window_start + duration (inside the active window, or
\* late) leaves current, current_window_start and every other window
\* unchanged and changes the active window only by adding one to the value's
\* counter and to val_count.
C17_InsertInsideWindow ==
    [][\A value \in Values, timestamp \in Timestamps :
          (/\ InsertCall(value, timestamp)
           /\ InRange(rb, value)
           /\ rb.current_window_initialized
           /\ timestamp < rb.current_window_start + rb.duration)
          => /\ pc' = "rb"
             /\ result'.ret = Unit
             /\ rb' = [rb EXCEPT
                         !.windows[rb.current + 1].val_count = @ + 1,
                         !.windows[rb.current + 1].quantiles[value - rb.start + 1] = @ + 1]]_vars

\* a late insert, its timestamp before the active window's start, was added
\* to the active window next to the value already there
C17_Witness ==
    /\ Inserted /\ pc = "rb"
    /\ LastArg(2) < rb.current_window_start
    /\ rb.windows[rb.current + 1].val_count >= 2

\* ---- C18.  Initialization: a buffer starts uninitialized with current = 0;
\* its first insert (duration > 0, where the rule is defined) sets
\* current_window_start = timestamp - (timestamp mod duration) and
\* current_window_initialized; the flag never falls back, and a later insert
\* changes current_window_start only when its loop advances
\* (timestamp > current_window_start + duration), never by re-anchoring.
C18_Initialization ==
    [][/\ (pc = "start" /\ pc' = "rb")
            => (~rb'.current_window_initialized /\ rb'.current = 0)
       /\ (pc = "rb" /\ rb.current_window_initialized)
            => rb'.current_window_initialized
       /\ \A value \in Values, timestamp \in Timestamps :
             InsertCall(value, timestamp)
             => /\ (~rb.current_window_initialized /\ rb.duration > 0)
                     => /\ rb'.current_window_initialized
                        /\ rb'.current_window_start =
                               timestamp - (timestamp % rb.duration)
                        /\ rb'.current = 0
                /\ (rb.current_window_initialized
                    /\ rb'.current_window_start # rb.current_window_start)
                     => /\ timestamp > rb.current_window_start + rb.duration
                        /\ rb'.current = (rb.current + 1) % rb.capacity]_vars

\* a second insert, earlier than the grid's anchor, has left the anchor of
\* the first insert in place
C18_Witness ==
    /\ Inserted /\ pc = "rb"
    /\ rb.current_window_initialized
    /\ h.ref.val_count >= 2
    /\ rb.current_window_start = h.firstStart
    /\ LastArg(2) - (LastArg(2) % rb.duration) # rb.current_window_start

\* val_count is the sum of the counters and there are end - start + 1 counters
WellFormed(e) ==
    /\ e.val_count = Cumulative(e.quantiles, Len(e.quantiles))
    /\ Len(e.quantiles) = e.end - e.start + 1

\* ---- C19.  In every reachable state every histogram, the standalone one
\* and each window of the buffer, has val_count equal to the sum of its
\* counters and end - start + 1 counters, and the buffer holds exactly
\* capacity windows with 0 <= current < capacity.  (The claim as stated.)
C19_StructuralInvariant ==
    /\ pc = "est" => WellFormed(est)
    /\ pc = "rb" =>
         /\ Len(rb.windows) = rb.capacity
         /\ \A i \in 1 .. Len(rb.windows) : WellFormed(rb.windows[i])
         /\ 0 <= rb.current /\ rb.current < rb.capacity

\* the loop body of insert has run in this step, to its end or to the panic
\* of its +=
Advanced ==
    /\ pc = "insert_loop"
    /\ rb' # rb
    /\ pc' \in {"insert_loop", "aborted"}

EmptyHistogram(w, b) ==
    /\ w.val_count = 0
    /\ w.start = b.start /\ w.end = b.end
    /\ Len(w.quantiles) = b.end - b.start + 1
    /\ \A k \in 1 .. Len(w.quantiles) : w.quantiles[k] = 0

LosesData(w, w2) ==
    \/ w2.val_count < w.val_count
    \/ \E k \in 1 .. Len(w.quantiles) : w2.quantiles[k] < w.quantiles[k]

\* C16: each iteration of the window-advance loop resets exactly one slot:
\* the slot at the new current index becomes an empty histogram of the same
\* [start, end], the other slots are unchanged, and a slot loses data only
\* in a step in which current moves onto it.
C16_AdvanceResetsOneSlot ==
    [][/\ Advanced =>
            /\ rb'.current = (rb.current + 1) % rb.capacity
            /\ Len(rb'.windows) = Len(rb.windows)
            /\ EmptyHistogram(rb'.windows[rb'.current + 1], rb)
            /\ \A i \in 1 .. Len(rb.windows) :
                  i # rb'.current + 1 => rb'.windows[i] = rb.windows[i]
       /\ \A i \in 1 .. Len(rb.windows) :
            LosesData(rb.windows[i], rb'.windows[i]) =>
                Advanced /\ rb'.current + 1 = i]_vars

\* the second insert of a run has advanced a two-slot buffer by one step: the
\* slot current moved onto is empty and the other one still holds the first
\* insert's value
C16_Witness ==
    /\ pc = "insert_loop"
    /\ rb.capacity = 2
    /\ rb.current = 1
    /\ h.ref.val_count = 1
    /\ rb.windows[1].val_count = 1
    /\ rb.windows[2].val_count = 0

\* every call of insert returns or panics: the while loop runs finitely
\* many iterations, also where the additions wrap
InsertLoopTerminates == (pc = "insert_loop") ~> (pc # "insert_loop")

\* C20: every insert on a buffer with duration > 0 terminates with the value
\* added to the active window; stated for a buffer of positive capacity and
\* a value inside [start, end], so that the panics of C8 and C9 are not the
\* reason.
C20_InsertTerminatesAdded ==
    (pc = "insert_loop" /\ ValidBuffer(rb) /\ InRange(rb, result.args[1]))
        ~> (pc = "rb")

====
